---- MODULE Spec2Model ----
(***************************************************************************)
(* Soft-wrap text layout of helix-term: DocumentRender (document.rs),      *)
(* DocumentCursor (document/cursor.rs) and TextRender                      *)
(* (document/text_render.rs).  One render pass: construction followed by   *)
(* render_line calls made while finished() is false.                       *)
(***************************************************************************)
EXTENDS Integers, Sequences, FiniteSets, TLC

VARIABLES
    config,       \* editor config, viewport, scroll offset, tab width of the pass
    text,         \* the text slice, as its sequence of graphemes
    events,       \* the whole highlight-event stream handed to DocumentRender::new
    highlights,   \* DocumentRender.highlights: the events not yet pulled
    spans,        \* DocumentRender.spans
    finished,     \* DocumentRender.finished
    cursor,       \* DocumentRender.cursor (DocumentCursor)
    text_render,  \* the TextRender passed to every call, with the surface writes
    calls,        \* number of render_line calls made so far
    returned,     \* the return statement the last render_line call left through
    advanced      \* the boundary cursor.advance last returned to render_line,
                  \* with the cursor and the TextRender as they were then

vars == <<config, text, events, highlights, spans, finished, cursor,
          text_render, calls, returned, advanced>>

----------------------------------------------------------------------------
(* Bounds of the explored inputs *)

MaxLen == 3        \* graphemes in an enumerated text
MaxWidth == 5      \* largest enumerated viewport width
MaxHeight == 2     \* largest enumerated viewport height
MaxCalls == 8      \* render_line calls followed per pass

WorkBudget == 64   \* document.rs:137, word size limit without soft wrap

----------------------------------------------------------------------------
(* Small helpers *)

Min(a, b) == IF a < b THEN a ELSE b

SatSub(a, b) == IF a > b THEN a - b ELSE 0

\* the sum of a sequence of numbers, by halves
RECURSIVE SumSeq(_)
SumSeq(q) ==
    IF q = <<>> THEN 0
    ELSE IF Len(q) = 1 THEN q[1]
    ELSE SumSeq(SubSeq(q, 1, Len(q) \div 2))
           + SumSeq(SubSeq(q, Len(q) \div 2 + 1, Len(q)))

Repeat(g, n) == [i \in 1..n |-> g]

\* e, once v has been computed.  TLC computes an operator's argument where it
\* is first read; a loop that hands on a value it does not read itself would
\* otherwise compute all its passes nested in one another.
Strict(v, e) == IF v = v THEN e ELSE e

----------------------------------------------------------------------------
(* Graphemes: text_render.rs *)

WideGraphemes == {"W"}

\* helix_core::graphemes::grapheme_width
grapheme_width(raw) == IF raw \in WideGraphemes THEN 2 ELSE 1

\* RopeSlice::len_chars of one grapheme
len_chars(raw) == IF raw = "\r\n" THEN 2 ELSE 1

\* helix_core::LineEnding::from_str(..).is_some()
IsLineEnding(raw) == raw \in {"\n", "\r\n"}

\* impl From<Cow<str>> for Grapheme
GraphemeFrom(raw) ==
    CASE raw = "\t"   -> [kind |-> "Tab", raw |-> raw, width |-> 0]
      [] raw = " "    -> [kind |-> "Space", raw |-> raw, width |-> 0]
      [] raw = "nbsp" -> [kind |-> "Nbsp", raw |-> raw, width |-> 0]
      [] OTHER        -> [kind |-> "Other", raw |-> raw,
                          width |-> grapheme_width(raw)]

GraphemeSpace == [kind |-> "Space", raw |-> " ", width |-> 0]

\* Grapheme::min_width
min_width(g) == IF g.kind = "Other" THEN g.width ELSE 1

\* into_display giving every tab the full tab width
into_display_FullTab(g, visual_x) ==
    CASE g.kind = "Tab"   -> config.tab_width
      [] g.kind = "Space" -> 1
      [] g.kind = "Nbsp"  -> 1
      [] OTHER            -> g.width

\* Grapheme::into_display, the resolved width
into_display(g, visual_x) ==
    CASE g.kind = "Tab"   -> config.tab_width - (visual_x % config.tab_width)
      [] g.kind = "Space" -> 1
      [] g.kind = "Nbsp"  -> 1
      [] OTHER            -> g.width

\* Grapheme::is_whitespace
is_whitespace(g) == g.kind # "Other"

\* Grapheme::is_breaking_space
is_breaking_space(g) == g.kind \notin {"Other", "Nbsp"}

\* StyledGrapheme::new; idx is the position in text the grapheme was read
\* from (0: not read from the text)
StyledGrapheme(raw, style, idx) ==
    [grapheme |-> GraphemeFrom(raw), style |-> style, idx |-> idx]

\* Style::default()
StyleDefault == <<>>

\* StyledGrapheme::placeholder
placeholder == [grapheme |-> GraphemeSpace, style |-> StyleDefault, idx |-> 0]

\* the synthetic space render_line draws at a line end and at the text end
SyntheticSpace(style) == [grapheme |-> GraphemeSpace, style |-> style, idx |-> 0]

\* Style::patch: the overlay is applied on top of the attributes so far
patch(style, overlay) == Append(style, overlay)

\* StyledGrapheme::style
styled(sg) ==
    IF is_whitespace(sg.grapheme)
    THEN patch(sg.style, "ui.virtual.whitespace") ELSE sg.style

----------------------------------------------------------------------------
(* TextRender: text_render.rs *)

IndentNone == [tag |-> "None", col |-> 0]
IndentUnkown == [tag |-> "Unkown", col |-> 0]
IndentKnown(c) == [tag |-> "Known", col |-> c]

\* TextRenderConfig::new, starting_indent
starting_indent ==
    (config.col_offset \div config.tab_width) + config.skip_levels

\* TextRender::new.  lines is history: the indent level each finished line
\* had when advance_to_next_line left it.
TextRenderNew ==
    [visual_line |-> 0, visual_x |-> 0, indent_level |-> IndentUnkown,
     prev_indent_level |-> 0, surface |-> <<>>, lines |-> <<>>]

\* TextRender::in_bounds
in_bounds(visual_x) ==
    /\ config.col_offset <= visual_x
    /\ visual_x < config.width + config.col_offset

\* TextRender::space_left
space_left(tr) == SatSub(config.col_offset + config.width, tr.visual_x)

\* TextRender::reached_viewport_end
reached_viewport_end(tr) == tr.visual_line >= config.height

\* draw_grapheme taking the indent from the first grapheme of a line,
\* whitespace or not
draw_grapheme_AnyGrapheme(tr, sg) ==
    LET cut_off_start == SatSub(config.col_offset, tr.visual_x)
        style == styled(sg)
        width == into_display(sg.grapheme, tr.visual_x)
        write == IF in_bounds(tr.visual_x) THEN "string"
                 ELSE IF cut_off_start # 0 /\ cut_off_start < width THEN "style"
                 ELSE "none"
        cell == [call |-> "draw_grapheme", grapheme |-> sg.grapheme,
                 style |-> style, idx |-> sg.idx, visual_x |-> tr.visual_x,
                 indent_level |-> tr.indent_level,
                 visual_line |-> tr.visual_line, width |-> width,
                 write |-> write,
                 x |-> IF write = "string"
                       THEN config.viewport_x + (tr.visual_x - config.col_offset)
                       ELSE config.viewport_x,
                 span |-> IF write = "style" THEN width - cut_off_start ELSE 0]
    IN [tr EXCEPT
          !.surface = Append(@, cell),
          !.indent_level =
              IF @.tag = "Unkown" THEN IndentKnown(tr.visual_x) ELSE @,
          !.visual_x = @ + width]

\* TextRender::draw_grapheme.  The surface records every call: the grapheme,
\* the running column and row it was drawn at, its resolved width and what was
\* written ("string": draw_raw_grapheme_at, "style": set_style on the visible
\* remainder, "none": nothing), and the indent level the call found.
draw_grapheme(tr, sg) ==
    LET cut_off_start == SatSub(config.col_offset, tr.visual_x)
        style == styled(sg)
        width == into_display(sg.grapheme, tr.visual_x)
        write == IF in_bounds(tr.visual_x) THEN "string"
                 ELSE IF cut_off_start # 0 /\ cut_off_start < width THEN "style"
                 ELSE "none"
        cell == [call |-> "draw_grapheme", grapheme |-> sg.grapheme,
                 style |-> style, idx |-> sg.idx, visual_x |-> tr.visual_x,
                 indent_level |-> tr.indent_level,
                 visual_line |-> tr.visual_line, width |-> width,
                 write |-> write,
                 x |-> IF write = "string"
                       THEN config.viewport_x + (tr.visual_x - config.col_offset)
                       ELSE config.viewport_x,
                 span |-> IF write = "style" THEN width - cut_off_start ELSE 0]
    IN [tr EXCEPT
          !.surface = Append(@, cell),
          !.indent_level =
              IF ~is_whitespace(sg.grapheme) /\ @.tag = "Unkown"
              THEN IndentKnown(tr.visual_x) ELSE @,
          !.visual_x = @ + width]

\* TextRender::draw_indent_guides.  x is computed in usize and cast to u16
\* (lines 340-341): below col_offset the subtraction wraps around in a
\* release build, where the debug assertion of line 343 is compiled out.
draw_indent_guides(tr) ==
    IF tr.indent_level.tag = "None" THEN tr
    ELSE
    LET indent_level == IF tr.indent_level.tag = "Unkown"
                        THEN tr.prev_indent_level ELSE tr.indent_level.col
        end_indent ==
            Min(indent_level,
                config.col_offset + config.width + (config.tab_width - 1))
              \div config.tab_width
        guide(i) == [call |-> "draw_indent_guides", grapheme |-> GraphemeSpace,
                     style |-> StyleDefault, idx |-> i,
                     visual_x |-> i * config.tab_width,
                     indent_level |-> tr.indent_level,
                     visual_line |-> tr.visual_line, width |-> 1,
                     write |-> "string",
                     x |-> (config.viewport_x + (i * config.tab_width)
                              - config.col_offset) % 65536,
                     span |-> 0]
    IN [tr EXCEPT !.surface =
            @ \o [k \in 1..SatSub(end_indent, starting_indent) |->
                      guide(starting_indent + k - 1)]]

\* advance_to_next_line carrying the indent of every line it leaves, 0 for a
\* line without a Known indent
advance_to_next_line_AlwaysCarry(tr, new_ident) ==
    [tr EXCEPT
       !.visual_line = @ + 1,
       !.prev_indent_level = tr.indent_level.col,
       !.visual_x = IF new_ident.tag = "Known" THEN new_ident.col ELSE 0,
       !.indent_level = new_ident,
       !.lines = Append(@, tr.indent_level)]

\* TextRender::advance_to_next_line
advance_to_next_line(tr, new_ident) ==
    [tr EXCEPT
       !.visual_line = @ + 1,
       !.prev_indent_level =
           IF tr.indent_level.tag = "Known" THEN tr.indent_level.col ELSE @,
       !.visual_x = IF new_ident.tag = "Known" THEN new_ident.col ELSE 0,
       !.indent_level = new_ident,
       !.lines = Append(@, tr.indent_level)]

\* TextRender::skip
skip(tr, width) == [tr EXCEPT !.visual_x = @ + width]

----------------------------------------------------------------------------
(* DocumentCursor: cursor.rs *)

\* DocumentCursorConfig::new
max_wrap == Min(config.max_wrap, config.width \div 4)

max_indent_retain == Min(config.max_indent_retain, config.width \div 4)

\* DocumentCursor::new; graphemes is the number of graphemes already read.
\* scopes is history: the operands of the assertion of line 100 at each
\* set_highlight_scope call, with the end of the scope installed.
DocumentCursorNew ==
    [char_pos |-> config.char_offset, word_buf |-> <<>>, word_width |-> 0,
     graphemes |-> 0, pos |-> [row |-> config.offset_row, col |-> 0],
     highlight_scope |-> [end |-> 0, style |-> StyleDefault],
     scopes |-> <<>>]

\* DocumentCursor::set_highlight_scope
set_highlight_scope(c, scope_char_start, scope_char_end, style) ==
    [c EXCEPT !.highlight_scope = [end |-> scope_char_end, style |-> style],
              !.scopes = Append(@, [char_pos |-> c.char_pos,
                                    graphemes |-> c.graphemes,
                                    scope_char_start |-> scope_char_start,
                                    scope_char_end |-> scope_char_end])]

\* DocumentCursor::push_grapheme: the cursor and the returned word boundary
push_grapheme(c, raw, style, idx) ==
    IF IsLineEnding(raw)
    THEN [cursor |-> [c EXCEPT !.pos = [row |-> @.row + 1, col |-> 0]],
          ret |-> "Newline"]
    ELSE LET grapheme == StyledGrapheme(raw, style, idx)
         IN [cursor |-> [c EXCEPT
                           !.word_width = @ + min_width(grapheme.grapheme),
                           !.word_buf = Append(@, grapheme)],
             ret |-> IF is_breaking_space(grapheme.grapheme)
                     THEN "Space" ELSE "None"]

\* one pass through the loop of advance that goes on reading at the scope end
\* and returns only once the position is past it
AdvanceStep_PastScope(c, budget) ==
    IF c.char_pos > c.highlight_scope.end THEN [cursor |-> c, ret |-> "None"]
    ELSE IF c.graphemes < Len(text)
    THEN LET raw == text[c.graphemes + 1]
             codepoints == len_chars(raw)
             c1 == [c EXCEPT !.graphemes = @ + 1,
                             !.pos.col = @ + codepoints,
                             !.char_pos = @ + codepoints]
             p == push_grapheme(c1, raw, c1.highlight_scope.style,
                                c.graphemes + 1)
         IN IF p.ret # "None" THEN p
            ELSE IF p.cursor.word_width >= budget
            THEN [cursor |-> p.cursor, ret |-> "Wrap"]
            ELSE [cursor |-> p.cursor, ret |-> "Continue"]
    ELSE [cursor |-> c, ret |-> "None"]

\* One pass through the loop of DocumentCursor::advance (lines 110-134), from
\* a cursor that has not returned yet: the cursor and Some(boundary), "None",
\* or "Continue" when the loop goes round again.  budget is the space_left
\* argument.
AdvanceStep(c, budget) ==
    IF c.char_pos >= c.highlight_scope.end THEN [cursor |-> c, ret |-> "None"]
    ELSE IF c.graphemes < Len(text)
    THEN LET raw == text[c.graphemes + 1]
             codepoints == len_chars(raw)
             c1 == [c EXCEPT !.graphemes = @ + 1,
                             !.pos.col = @ + codepoints,
                             !.char_pos = @ + codepoints]
             p == push_grapheme(c1, raw, c1.highlight_scope.style,
                                c.graphemes + 1)
         IN IF p.ret # "None" THEN p
            ELSE IF p.cursor.word_width >= budget
            THEN [cursor |-> p.cursor, ret |-> "Wrap"]
            ELSE [cursor |-> p.cursor, ret |-> "Continue"]
    ELSE [cursor |-> c, ret |-> "None"]

\* at most n passes through the loop, stopping at the first that returns: the
\* first half of them, then the rest
RECURSIVE AdvanceLoop(_, _, _)
AdvanceLoop(a, budget, n) ==
    IF a.ret # "Continue" THEN a
    ELSE IF n <= 1 THEN AdvanceStep(a.cursor, budget)
    ELSE AdvanceLoop(AdvanceLoop(a, budget, n \div 2), budget, n - (n \div 2))

\* advance yielding Wrap for a buffered word that fills the budget before it
\* reads anything
advance_WrapBeforeRead(c, budget) ==
    IF c.word_buf # <<>> /\ c.word_width >= budget
    THEN [cursor |-> c, ret |-> "Wrap"]
    ELSE AdvanceLoop([cursor |-> c, ret |-> "Continue"], budget,
                     (Len(text) - c.graphemes) + 1)

\* DocumentCursor::advance: the cursor and Some(boundary) or "None".  Every
\* pass that goes round again has read a grapheme, so the loop returns within
\* one pass more than there are graphemes left.
advance(c, budget) ==
    AdvanceLoop([cursor |-> c, ret |-> "Continue"], budget,
                (Len(text) - c.graphemes) + 1)

\* take_word_buf resetting the width but leaving the graphemes buffered
take_word_buf_KeepBuf(c) == [c EXCEPT !.word_width = 0]

\* DocumentCursor::take_word_buf: the cursor after the drain (the drained
\* graphemes are c.word_buf)
take_word_buf(c) == [c EXCEPT !.word_width = 0, !.word_buf = <<>>]

\* WrapFit handing back a grapheme that would exactly fill the line
WrapFit_OffByOne(tr, grapheme) ==
    IF space_left(tr) <= min_width(grapheme.grapheme)
    THEN [put_back |-> TRUE, env |-> tr]
    ELSE [put_back |-> FALSE, env |-> draw_grapheme(tr, grapheme)]

\* the closure wrap_line hands to take_word_buf_until
WrapFit(tr, grapheme) ==
    IF space_left(tr) < min_width(grapheme.grapheme)
    THEN [put_back |-> TRUE, env |-> tr]
    ELSE [put_back |-> FALSE, env |-> draw_grapheme(tr, grapheme)]

\* DocumentCursor::take_word_buf_until, called with the closure of wrap_line,
\* which returns the TextRender it captured and whether it handed the
\* grapheme back.  Every taken slot holds the placeholder when its width is
\* subtracted.
take_word_buf_until(c, env0) ==
    LET RECURSIVE loop(_, _, _)
        loop(word_width, env, taken_graphemes) ==
            IF taken_graphemes >= Len(c.word_buf)
            THEN [word_width |-> word_width, env |-> env,
                  taken_graphemes |-> taken_graphemes]
            ELSE LET r == WrapFit(env, c.word_buf[taken_graphemes + 1])
                 IN IF r.put_back
                    THEN [word_width |-> word_width, env |-> r.env,
                          taken_graphemes |-> taken_graphemes]
                    ELSE LET width == word_width - min_width(placeholder.grapheme)
                         IN Strict(width, loop(width, r.env, taken_graphemes + 1))
        l == loop(c.word_width, env0, 0)
    IN [cursor |-> [c EXCEPT
                      !.word_width = l.word_width,
                      !.word_buf = SubSeq(@, l.taken_graphemes + 1, Len(@))],
        env |-> l.env]

----------------------------------------------------------------------------
(* DocumentRender: document.rs.  d is the renderer together with the        *)
(* TextRender it is handed: [highlights, spans, finished, cursor,           *)
(* text_render, returned, advanced].                                         *)

\* self.text.len_chars()
TextLenChars == SumSeq([i \in 1..Len(text) |-> len_chars(text[i])])

HighlightStart(span) == [type |-> "HighlightStart", span |-> span, start |-> 0, end |-> 0]
HighlightEnd == [type |-> "HighlightEnd", span |-> 0, start |-> 0, end |-> 0]
Source(start, end) == [type |-> "Source", span |-> 0, start |-> start, end |-> end]

\* text_render.config.text_style, theme.get("ui.text")
text_style == <<"ui.text">>

\* advance_highlight_scope leaving the scope on the stack at a HighlightEnd
RECURSIVE advance_highlight_scope_NoPop(_)
advance_highlight_scope_NoPop(d) ==
    IF d.highlights = <<>> THEN [d EXCEPT !.finished = TRUE]
    ELSE
    LET event == Head(d.highlights)
        d1 == [d EXCEPT !.highlights = Tail(@)]
    IN CASE event.type = "HighlightStart" ->
              advance_highlight_scope_NoPop(
                  [d1 EXCEPT !.spans = Append(@, event.span)])
         [] event.type = "HighlightEnd" ->
              advance_highlight_scope_NoPop(d1)
         [] OTHER ->
              IF event.start = event.end THEN advance_highlight_scope_NoPop(d1)
              ELSE LET style == text_style \o d1.spans
                   IN [d1 EXCEPT !.cursor =
                          set_highlight_scope(@, event.start, event.end, style)]

\* DocumentRender::advance_highlight_scope
RECURSIVE advance_highlight_scope(_)
advance_highlight_scope(d) ==
    IF d.highlights = <<>> THEN [d EXCEPT !.finished = TRUE]
    ELSE
    LET event == Head(d.highlights)
        d1 == [d EXCEPT !.highlights = Tail(@)]
    IN CASE event.type = "HighlightStart" ->
              advance_highlight_scope([d1 EXCEPT !.spans = Append(@, event.span)])
         [] event.type = "HighlightEnd" ->
              advance_highlight_scope(
                  [d1 EXCEPT !.spans = IF @ = <<>> THEN @
                                        ELSE SubSeq(@, 1, Len(@) - 1)])
         [] OTHER ->
              IF event.start = event.end THEN advance_highlight_scope(d1)
              ELSE LET style == text_style \o d1.spans
                   IN [d1 EXCEPT !.cursor =
                          set_highlight_scope(@, event.start, event.end, style)]

\* DocumentRender::new
DocumentRenderNew ==
    advance_highlight_scope(
        [highlights |-> events, spans |-> <<>>, finished |-> FALSE,
         cursor |-> DocumentCursorNew, text_render |-> TextRenderNew,
         returned |-> "new",
         advanced |-> [word_boundry |-> "None", cursor |-> DocumentCursorNew,
                       text_render |-> TextRenderNew]])

\* draw_grapheme on each grapheme in order: the first half, then the rest
RECURSIVE DrawAll(_, _)
DrawAll(tr, graphemes) ==
    IF graphemes = <<>> THEN tr
    ELSE IF Len(graphemes) = 1 THEN draw_grapheme(tr, graphemes[1])
    ELSE LET half == DrawAll(tr, SubSeq(graphemes, 1, Len(graphemes) \div 2))
         IN Strict(half,
                   DrawAll(half, SubSeq(graphemes, Len(graphemes) \div 2 + 1,
                                        Len(graphemes))))

\* DocumentRender::render_word
render_word(d) ==
    [d EXCEPT !.text_render = DrawAll(@, d.cursor.word_buf),
              !.cursor = take_word_buf(@)]

\* DocumentRender::finish_line
finish_line(d) ==
    IF config.indent_guides_render
    THEN [d EXCEPT !.text_render = draw_indent_guides(@)] ELSE d

\* DocumentRender::advance_line
advance_line(d, next_indent_level) ==
    [finish_line(d) EXCEPT
        !.text_render = advance_to_next_line(@, next_indent_level)]

\* WrapIndent retaining only an indent strictly below max_indent_retain
WrapIndent_Strict(indent_level) ==
    IF indent_level.tag = "Known" /\ indent_level.col < max_indent_retain
    THEN IndentKnown(indent_level.col) ELSE IndentNone

\* WrapIndent leaving the indent of a whitespace-only line unknown
WrapIndent_KeepUnkown(indent_level) ==
    IF indent_level.tag = "Known" /\ indent_level.col <= max_indent_retain
    THEN IndentKnown(indent_level.col)
    ELSE IF indent_level.tag = "Unkown" THEN IndentUnkown ELSE IndentNone

\* the indent level wrap_line hands to advance_line
WrapIndent(indent_level) ==
    IF indent_level.tag = "Known" /\ indent_level.col <= max_indent_retain
    THEN IndentKnown(indent_level.col) ELSE IndentNone

\* wrap_line drawing a word that is not wider than max_wrap before it
\* advances the line
wrap_line_Flush(d) ==
    LET d1 == IF d.cursor.word_width > max_wrap
              THEN LET t == take_word_buf_until(d.cursor, d.text_render)
                   IN [d EXCEPT !.cursor = t.cursor, !.text_render = t.env]
              ELSE render_word(d)
        indent_level == WrapIndent(d1.text_render.indent_level)
        d2 == advance_line(d1, indent_level)
    IN [d2 EXCEPT !.text_render = skip(@, config.wrap_indent)]

\* DocumentRender::wrap_line
wrap_line(d) ==
    LET d1 == IF d.cursor.word_width > max_wrap
              THEN LET t == take_word_buf_until(d.cursor, d.text_render)
                   IN [d EXCEPT !.cursor = t.cursor, !.text_render = t.env]
              ELSE d
        indent_level == WrapIndent(d1.text_render.indent_level)
        d2 == advance_line(d1, indent_level)
    IN [d2 EXCEPT !.text_render = skip(@, config.wrap_indent)]

\* RenderNewline setting finished at every line end
RenderNewline_AlwaysFinished(d) ==
    LET d1 == [d EXCEPT !.text_render =
                  draw_grapheme(@, SyntheticSpace(d.cursor.highlight_scope.style))]
        d2 == advance_line(d1, IndentUnkown)
    IN [d2 EXCEPT !.finished = TRUE, !.returned = "newline"]

\* RenderNewline without the end-of-line space
RenderNewline_NoEolSpace(d) ==
    LET d2 == advance_line(d, IndentUnkown)
    IN [d2 EXCEPT !.finished = reached_viewport_end(d2.text_render),
                  !.returned = "newline"]

\* RenderNewline setting finished one line late
RenderNewline_FinishedLate(d) ==
    LET d1 == [d EXCEPT !.text_render =
                  draw_grapheme(@, SyntheticSpace(d.cursor.highlight_scope.style))]
        d2 == advance_line(d1, IndentUnkown)
    IN [d2 EXCEPT !.finished = d2.text_render.visual_line > config.height,
                  !.returned = "newline"]

\* render_line, after a Newline boundary (lines 146-155)
RenderNewline(d) ==
    LET d1 == [d EXCEPT !.text_render =
                  draw_grapheme(@, SyntheticSpace(d.cursor.highlight_scope.style))]
        d2 == advance_line(d1, IndentUnkown)
    IN [d2 EXCEPT !.finished = reached_viewport_end(d2.text_render),
                  !.returned = "newline"]

\* RenderTextEnd drawing the trailing space also when the last scope ends
\* with the text
RenderTextEnd_AlwaysSpace(d) ==
    LET d1 == render_word(d)
        d2 == IF d1.cursor.highlight_scope.end >= TextLenChars
              THEN [d1 EXCEPT !.text_render =
                      draw_grapheme(@, SyntheticSpace(d1.cursor.highlight_scope.style))]
              ELSE d1
    IN [finish_line(d2) EXCEPT !.returned = "text_end"]

\* render_line, once the highlight events ran out (lines 167-180)
RenderTextEnd(d) ==
    LET d1 == render_word(d)
        d2 == IF d1.cursor.highlight_scope.end > TextLenChars
              THEN [d1 EXCEPT !.text_render =
                      draw_grapheme(@, SyntheticSpace(d1.cursor.highlight_scope.style))]
              ELSE d1
    IN [finish_line(d2) EXCEPT !.returned = "text_end"]

\* AdvanceBudget measuring the word against max_wrap instead of the line
AdvanceBudget_MaxWrap(tr) ==
    IF config.soft_wrap_enable THEN max_wrap ELSE WorkBudget

\* the budget render_line hands to advance (lines 133-138)
AdvanceBudget(tr) ==
    IF config.soft_wrap_enable THEN space_left(tr) ELSE WorkBudget

\* IsSoftWrap wrapping whether or not soft wrap is enabled
IsSoftWrap_IgnoreEnable(word_boundry) == word_boundry = "Wrap"

\* the wrap condition of render_line (line 139)
IsSoftWrap(word_boundry) ==
    config.soft_wrap_enable /\ word_boundry = "Wrap"

\* the loop of DocumentRender::render_line (lines 132-188)
RECURSIVE render_loop(_)
render_loop(d) ==
    LET a == advance(d.cursor, AdvanceBudget(d.text_render))
        d1 == [d EXCEPT !.cursor = a.cursor,
                        !.advanced = [word_boundry |-> a.ret,
                                      cursor |-> a.cursor,
                                      text_render |-> d.text_render]]
    IN IF a.ret # "None"
       THEN IF IsSoftWrap(a.ret)
            THEN [wrap_line(d1) EXCEPT !.returned = "wrap"]
            ELSE LET d2 == render_word(d1)
                 IN IF a.ret = "Newline" THEN RenderNewline(d2)
                    ELSE IF reached_viewport_end(d2.text_render)
                    THEN [d2 EXCEPT !.finished = TRUE,
                                    !.returned = "viewport_end"]
                    ELSE render_loop(d2)
       ELSE LET d2 == advance_highlight_scope(d1)
            IN IF d2.finished THEN RenderTextEnd(d2)
               ELSE IF reached_viewport_end(d2.text_render)
               THEN [finish_line(d2) EXCEPT !.finished = TRUE,
                                            !.returned = "partial"]
               ELSE render_loop(d2)

\* render_line returning at the viewport end without setting finished
render_line_ReturnAtViewportEnd(d) ==
    IF d.finished \/ reached_viewport_end(d.text_render)
    THEN [d EXCEPT !.returned = "finished"]
    ELSE render_loop(d)

\* DocumentRender::render_line
render_line(d) ==
    IF d.finished THEN [d EXCEPT !.returned = "finished"]
    ELSE render_loop(d)

----------------------------------------------------------------------------
(* The inputs of a pass *)

\* every text of n graphemes over an alphabet, and of at most n
TextsOfLen(alphabet, n) == [1..n -> alphabet]

TextsUpTo(alphabet, n) == UNION {TextsOfLen(alphabet, k) : k \in 0..n}

CharLen(t) == SumSeq([i \in 1..Len(t) |-> len_chars(t[i])])

\* Well-formed highlight streams over a text: one range over the whole text;
\* two contiguous ranges under nested scopes with an empty range between them
\* (split at a grapheme boundary); one range ending past the text (the
\* position of a cursor at the end of the document).
WholeStream(t) == <<Source(0, CharLen(t))>>

SplitStream(t) ==
    LET n == CharLen(t)
        k == CharLen(SubSeq(t, 1, (Len(t) + 1) \div 2))
    IN <<HighlightStart(1), Source(0, k), HighlightStart(2), Source(k, k),
         HighlightEnd, Source(k, n), HighlightEnd>>

PastEndStream(t) == <<Source(0, CharLen(t) + 1)>>

StreamsOf(t) == {WholeStream(t), SplitStream(t), PastEndStream(t)}

\* editor::Config defaults of the fields the renderer reads, a viewport at
\* the origin and no scroll offset
DefaultConfig ==
    [soft_wrap_enable |-> TRUE, max_wrap |-> 20, max_indent_retain |-> 40,
     wrap_indent |-> 0, indent_guides_render |-> TRUE, skip_levels |-> 0,
     width |-> 80, height |-> 1, viewport_x |-> 0, viewport_y |-> 0,
     col_offset |-> 0, tab_width |-> 4, char_offset |-> 0, offset_row |-> 0]

\* every pass over the texts under the configs, with every stream shape and
\* with one range over the whole text
Passes(texts, configs) ==
    UNION {{[text |-> t, events |-> e, config |-> c] :
              e \in StreamsOf(t), c \in configs} : t \in texts}

WholePasses(texts, configs) ==
    {[text |-> t, events |-> WholeStream(t), config |-> c] :
        t \in texts, c \in configs}

\* soft wrap in small viewports: word wrap, forced in-word breaks, wide
\* graphemes, retained indents and wrap indents.  Below width 4 both limits
\* of DocumentCursorConfig are 0 whatever is configured.
WrapConfigs ==
    {[DefaultConfig EXCEPT
        !.width = w, !.height = h, !.max_wrap = lim[1],
        !.max_indent_retain = lim[2], !.wrap_indent = wi] :
       w \in 1..MaxWidth, h \in {1, MaxHeight},
       lim \in {<<20, 40>>, <<0, 40>>, <<20, 0>>}, wi \in {0, 1}}

WrapInputs ==
    WholePasses(TextsUpTo({"a", "W", " ", "\n"}, MaxLen),
                {c \in WrapConfigs :
                   c.width >= 4 \/ (c.max_wrap = 20 /\ c.max_indent_retain = 40)})

\* no soft wrap: clipping at both viewport edges, tabs, scroll offsets
NoWrapInputs ==
    WholePasses(TextsUpTo({"a", "W", "\t", "\n"}, MaxLen),
                {[DefaultConfig EXCEPT
                    !.soft_wrap_enable = FALSE, !.width = w,
                    !.height = MaxHeight, !.col_offset = co,
                    !.tab_width = tw] :
                   w \in {1, MaxWidth}, co \in {0, 1}, tw \in {2, 4}})

\* words that reach the 64-column work budget, with and without soft wrap,
\* and indented lines that wrap more than once
LongTexts ==
    {Repeat("a", WorkBudget + 1) \o <<"\n", "a">>,
     <<"a">> \o Repeat("W", WorkBudget \div 2) \o <<"\t", "a", "\n">>,
     <<" ", "a", "a", "a", " ", "a", "a", " ", "a">>,
     <<" ", " ", "a", "a", " ", "a", "a", "a", "a">>,
     <<"a", "a", "a", "a", "a", "a", "\n", "a", "a">>}

LongInputs ==
    Passes(LongTexts,
           {[DefaultConfig EXCEPT
               !.soft_wrap_enable = sw, !.width = w, !.height = MaxHeight + 1,
               !.max_indent_retain = mir] :
              sw \in BOOLEAN, w \in {MaxWidth - 1, 80}, mir \in {0, 40}})

\* tabs, non-breaking spaces and two-character line endings under soft wrap,
\* with every stream shape
MixedInputs ==
    Passes(TextsUpTo({"a", "\t", "nbsp", "\r\n"}, MaxLen),
           {[DefaultConfig EXCEPT
               !.width = w, !.height = MaxHeight, !.tab_width = 2,
               !.wrap_indent = wg[1], !.indent_guides_render = wg[2]] :
              w \in {2, MaxWidth}, wg \in {<<0, TRUE>>, <<2, FALSE>>}})

\* section 8 of the specification: "The quick\nbrown fox" in a 10x2 viewport
QuickBrownFox ==
    <<"T", "h", "e", " ", "q", "u", "i", "c", "k", "\n",
      "b", "r", "o", "w", "n", " ", "f", "o", "x">>

QuickBrownFoxConfig ==
    [DefaultConfig EXCEPT !.width = 10, !.height = 2, !.max_wrap = 80]

\* section 8 of the specification: a 10-character word, max_wrap 5, width 20
TenCharWord == Repeat("a", 10)

TenCharWordConfigs ==
    {[DefaultConfig EXCEPT !.width = 20, !.height = h, !.max_wrap = 5] :
        h \in 1..MaxHeight}

ExampleInputs ==
    WholePasses({QuickBrownFox}, {QuickBrownFoxConfig})
      \cup WholePasses({TenCharWord}, TenCharWordConfigs)

\* three ranges under nested scopes: scope 1 alone, scope 2 inside it, and,
\* once scope 2 is closed, scope 3 inside scope 1, entered at an empty range
NestedStream(t) ==
    LET n == CharLen(t)
        a == CharLen(SubSeq(t, 1, Len(t) \div 3))
        b == CharLen(SubSeq(t, 1, (2 * Len(t)) \div 3))
    IN <<HighlightStart(1), Source(0, a), HighlightStart(2), Source(a, b),
         HighlightEnd, HighlightStart(3), Source(b, b), Source(b, n),
         HighlightEnd, HighlightEnd>>

ScopeInputs ==
    {[text |-> t, events |-> NestedStream(t), config |-> c] :
        t \in TextsUpTo({"a", " ", "\n"}, MaxLen),
        c \in {[DefaultConfig EXCEPT !.width = 2, !.height = MaxHeight],
               [DefaultConfig EXCEPT !.soft_wrap_enable = FALSE,
                                     !.height = MaxHeight]}}

\* indented lines followed by blank and whitespace-only lines, and a line
\* whose continuation loses its indent, in viewports tall enough for all
GuideTexts ==
    {<<"\t", "\t", "a", "\n", "\n", "\t", "a", "\n", "\n">>,
     <<"a", "\n", "\t", "\n", "\t", "\t", "\t", "a", "\n", " ", "\n">>,
     <<"\t", "\t", "a", "a", "a", "\n", "\n">>}

GuideInputs ==
    Passes(GuideTexts,
           {[DefaultConfig EXCEPT
               !.soft_wrap_enable = sw, !.width = w, !.height = 6,
               !.tab_width = 2, !.col_offset = co] :
              sw \in BOOLEAN, w \in {MaxWidth, 80}, co \in {0, 2}})

\* a stream that is not well formed: two contiguous ranges split inside the
\* first two-character line ending of the text
UnalignedStream(t) ==
    LET first == CHOOSE k \in 1..Len(t) :
                    /\ len_chars(t[k]) = 2
                    /\ \A j \in 1..(k - 1) : len_chars(t[j]) = 1
        inside == CharLen(SubSeq(t, 1, first)) - 1
    IN <<Source(0, inside), Source(inside, CharLen(t))>>

UnalignedInputs ==
    {[text |-> t, events |-> UnalignedStream(t), config |-> c] :
        t \in {u \in TextsUpTo({"a", "\r\n"}, MaxLen) :
                 \E k \in 1..Len(u) : len_chars(u[k]) = 2},
        c \in {[DefaultConfig EXCEPT !.soft_wrap_enable = sw,
                                     !.height = MaxHeight + 1] :
                 sw \in BOOLEAN}}

\* passes run to their end: soft wrap in viewports from one column up, limits
\* of 0 below width 4, a wrap indent of 0 or as large as the widest
\* viewport, graphemes wider than the viewport, every stream shape; and a
\* word that takes more calls than the lines of any viewport
LiveInputs ==
    Passes(TextsUpTo({"a", "W", " ", "\n"}, MaxLen),
           {[DefaultConfig EXCEPT
               !.width = w, !.height = MaxHeight, !.wrap_indent = wi] :
              w \in {1, 2, MaxWidth}, wi \in {0, MaxWidth}})
      \cup Passes({Repeat("a", WorkBudget + 1) \o <<"\n", "a">>},
                  {[DefaultConfig EXCEPT
                      !.soft_wrap_enable = sw, !.width = MaxWidth - 1,
                      !.height = h] :
                     sw \in BOOLEAN, h \in {1, 80}})

Inputs ==
    WrapInputs \cup NoWrapInputs \cup LongInputs \cup MixedInputs
      \cup ExampleInputs \cup ScopeInputs \cup GuideInputs
      \cup UnalignedInputs

----------------------------------------------------------------------------
(* The pass *)

\* the pass over an input as DocumentRender::new leaves it
StartPass(input) ==
    /\ config = input.config
    /\ text = input.text
    /\ events = input.events
    /\ LET d == DocumentRenderNew
       IN /\ highlights = d.highlights
          /\ spans = d.spans
          /\ finished = d.finished
          /\ cursor = d.cursor
          /\ text_render = d.text_render
          /\ returned = d.returned
          /\ advanced = d.advanced
    /\ calls = 0

Init == \E input \in Inputs : StartPass(input)

\* One call of DocumentRender::render_line on the state of the pass
CallRenderLine ==
    /\ LET d == render_line([highlights |-> highlights, spans |-> spans,
                             finished |-> finished, cursor |-> cursor,
                             text_render |-> text_render,
                             returned |-> returned, advanced |-> advanced])
       IN /\ highlights' = d.highlights
          /\ spans' = d.spans
          /\ finished' = d.finished
          /\ cursor' = d.cursor
          /\ text_render' = d.text_render
          /\ returned' = d.returned
          /\ advanced' = d.advanced
    /\ calls' = calls + 1
    /\ UNCHANGED <<config, text, events>>

\* One call of DocumentRender::render_line by the owner of the pass.  The
\* owner calls while finished() is false; one call more is followed, which
\* takes the early return of lines 128-130.
RenderLine ==
    /\ calls < MaxCalls
    /\ returned # "finished"
    /\ CallRenderLine

Next == RenderLine

Spec == Init /\ [][Next]_vars

\* The calls a pass can need: every call that returns with finished() false
\* has read a grapheme, so one call more than the text has graphemes.
CallLimit == Len(text) + 1

\* The owner's loop run to its end: render_line is called while finished()
\* is false, however many calls that takes.
RenderWhileUnfinished ==
    /\ ~finished
    /\ calls < CallLimit
    /\ CallRenderLine

NextWhileUnfinished == RenderWhileUnfinished

InitWhileUnfinished == \E input \in LiveInputs : StartPass(input)

\* The owner's side of a call: one is due while finished() is false, and
\* making it counts it.  render_line is a function of the state of the pass,
\* so the steps of NextWhileUnfinished that count a call are the calls of
\* RenderWhileUnfinished, enabled exactly when a call is due.
OwnerCalls ==
    /\ ~finished
    /\ calls < CallLimit
    /\ calls' = calls + 1

\* The owner goes on calling: a call that is due is made.
FairSpec ==
    /\ InitWhileUnfinished
    /\ [][NextWhileUnfinished]_vars
    /\ WF_calls(OwnerCalls)

----------------------------------------------------------------------------
(* Properties *)

surface == text_render.surface

Drawn == {i \in DOMAIN surface : surface[i].call = "draw_grapheme"}

\* the sum of min_width over the graphemes in the word buffer
BufferedWidth ==
    SumSeq([i \in 1..Len(cursor.word_buf) |-> min_width(cursor.word_buf[i].grapheme)])

FinishCause ==
    \/ highlights = <<>> /\ cursor.word_buf = <<>>
    \/ text_render.visual_line >= config.height

\* C1: finished never returns from true to false, and whenever it is true
\* either the highlight events ran out and the word buffer is flushed, or the
\* visual line counter has reached the viewport height.
C1_FinishedOnce ==
    /\ [](finished => FinishCause)
    /\ [][finished => finished']_vars

\* a pass that passed a line end, went on, and finished at the end of the text
\* before the viewport was full
C1_Witness ==
    /\ finished /\ calls >= 2 /\ returned = "text_end"
    /\ text_render.visual_line < config.height
    /\ text_render.visual_line > 0

\* C2: whenever finished is false the visual line counter is below the
\* viewport height, and nothing is drawn on a row at or past the height.
C2_NothingDrawnPastViewport ==
    /\ ~finished => text_render.visual_line < config.height
    /\ \A i \in DOMAIN surface : surface[i].visual_line < config.height

\* what render_line must change to have made progress
Progress ==
    \/ Len(text_render.surface') > Len(text_render.surface)
    \/ cursor.graphemes' > cursor.graphemes
    \/ Len(highlights') < Len(highlights)
    \/ text_render.visual_line' > text_render.visual_line
    \/ finished'

\* C3: with soft wrap enabled, a render_line call made while finished is
\* false draws a grapheme, consumes a grapheme or an event, advances the
\* visual line or sets finished; in particular when the pending word is wider
\* than max_wrap.
C3_ForwardProgress ==
    [][(calls' # calls /\ config.soft_wrap_enable /\ ~finished) => Progress]_vars

\* a call was made with a pending word wider than max_wrap left by a forced
\* break, and it returned through another wrap
C3_Witness ==
    /\ config.soft_wrap_enable /\ calls >= 2 /\ returned = "wrap"
    /\ cursor.word_buf # <<>> /\ BufferedWidth > max_wrap
    /\ \E i \in Drawn : surface[i].visual_line = text_render.visual_line - 1

\* the column of the first non-whitespace grapheme drawn on a row of a
\* surface, -1 when there is none
FirstNonWhitespaceCol(surf, row) ==
    LET hits == {i \in DOMAIN surf :
                   /\ surf[i].call = "draw_grapheme"
                   /\ surf[i].visual_line = row
                   /\ ~is_whitespace(surf[i].grapheme)}
    IN IF hits = {} THEN -1
       ELSE surf[CHOOSE i \in hits : \A j \in hits : i <= j].visual_x

\* C4 as stated: after a soft wrap the continuation line starts at the
\* wrapped line's first non-whitespace column iff that column is at most
\* max_indent_retain, and at column 0 otherwise.
C4_ContinuationAtIndent ==
    returned = "wrap" =>
        LET c == FirstNonWhitespaceCol(surface, text_render.visual_line - 1)
        IN text_render.visual_x =
              IF c >= 0 /\ c <= max_indent_retain THEN c ELSE 0

\* the indent level of the line a call wraps: the level the line started
\* with, or, when that was Unkown, the column of the first non-whitespace
\* grapheme the call draws on it
WrappedIndentLevel ==
    IF text_render.indent_level.tag = "Unkown"
    THEN LET c == FirstNonWhitespaceCol(text_render.surface',
                                        text_render.visual_line)
         IN IF c >= 0 THEN IndentKnown(c) ELSE IndentUnkown
    ELSE text_render.indent_level

\* C4 amended: after a soft wrap the continuation line starts at wrap_indent
\* plus the wrapped line's indent level when that level is Known(c) with
\* c <= max_indent_retain, and at wrap_indent otherwise.
C4_ContinuationAtIndentPlusWrapIndent ==
    [][(calls' # calls /\ returned' = "wrap") =>
          /\ text_render.visual_line' = text_render.visual_line + 1
          /\ text_render.visual_x' = config.wrap_indent +
                (IF /\ WrappedIndentLevel.tag = "Known"
                    /\ WrappedIndentLevel.col <= max_indent_retain
                 THEN WrappedIndentLevel.col ELSE 0)]_vars

\* a wrap that retained a non-zero indent equal to max_indent_retain and
\* added a wrap indent
C4_Witness ==
    /\ returned = "wrap" /\ config.wrap_indent > 0
    /\ text_render.indent_level.tag = "Known"
    /\ text_render.indent_level.col = max_indent_retain
    /\ text_render.indent_level.col > 0
    /\ text_render.visual_x = text_render.indent_level.col + config.wrap_indent
    /\ FirstNonWhitespaceCol(surface, text_render.visual_line - 1)
          = text_render.indent_level.col

\* the draw_grapheme calls recorded on the surface, in call order
IsGraphemeCall(e) == e.call = "draw_grapheme"

GraphemeCalls(surf) == SelectSeq(surf, IsGraphemeCall)

\* the positions of text, in order, among the first n, not holding a line ending
IsContent(k) == ~IsLineEnding(text[k])

ContentIdx(n) == SelectSeq([k \in 1..n |-> k], IsContent)

\* the text positions of the graphemes drawn from the text, in draw order
IsFromText(e) == e.idx > 0

DrawnIdx ==
    LET q == SelectSeq(GraphemeCalls(surface), IsFromText)
    IN [i \in 1..Len(q) |-> q[i].idx]

BufferedIdx == [i \in 1..Len(cursor.word_buf) |-> cursor.word_buf[i].idx]

\* The row and the unclipped column of every text position when no line is
\* wrapped, computed from the text alone.  The row is the number of line
\* endings before the position.  The column counts from the last tab before
\* the position on its line, which ends on the next multiple of tab_width,
\* or from the start of the line: one column per grapheme, two per wide one.
LayoutRow(k) == Cardinality({j \in 1..(k - 1) : IsLineEnding(text[j])})

RECURSIVE LayoutCol(_)
LayoutCol(k) ==
    LET starts == {j \in 1..(k - 1) : IsLineEnding(text[j])}
        start == IF starts = {} THEN 0
                 ELSE CHOOSE j \in starts : \A i \in starts : i <= j
        tabs == {j \in (start + 1)..(k - 1) : text[j] = "\t"}
        tab == IF tabs = {} THEN 0
               ELSE CHOOSE j \in tabs : \A i \in tabs : i <= j
        from == IF tab = 0 THEN start ELSE tab
        base == IF tab = 0 THEN 0
                ELSE ((LayoutCol(tab) \div config.tab_width) + 1) * config.tab_width
    IN base + ((k - 1) - from)
            + Cardinality({j \in (from + 1)..(k - 1) : text[j] \in WideGraphemes})

Layout(k) == [row |-> LayoutRow(k), col |-> LayoutCol(k)]

\* the position that ends the logical line shown on a row: its line ending,
\* or the position past the text
LineEnd(row) ==
    LET ends == {k \in 1..Len(text) : IsLineEnding(text[k]) /\ LayoutRow(k) = row}
    IN IF ends = {} THEN Len(text) + 1 ELSE CHOOSE k \in ends : TRUE

\* C5: without soft wrap the visual line advances only at a line ending, each
\* grapheme is drawn on the row of its logical line at the column given by
\* the widths of the graphemes before it on that line, and the end-of-line
\* space is drawn at the full width of the line, whatever the viewport width
\* and however long the words.
C5_ClipNeverWrap ==
    /\ [](~config.soft_wrap_enable =>
            \A i \in Drawn :
                LET e == surface[i]
                    at == IF e.idx > 0 THEN Layout(e.idx)
                          ELSE Layout(LineEnd(e.visual_line))
                IN e.visual_line = at.row /\ e.visual_x = at.col)
    /\ [][(~config.soft_wrap_enable
             /\ text_render.visual_line' # text_render.visual_line)
          => /\ returned' = "newline"
             /\ text_render.visual_line' = text_render.visual_line + 1]_vars

\* without soft wrap, a word past the work budget was drawn on one row, most
\* of it right of the viewport, and the line end was reached
C5_Witness ==
    /\ ~config.soft_wrap_enable /\ returned = "newline"
    /\ \E i \in Drawn :
          /\ surface[i].idx = 0
          /\ surface[i].visual_x > WorkBudget
          /\ surface[i].visual_x > config.width + config.col_offset
          /\ surface[i].visual_line = 0

\* C6: the graphemes drawn from the text, followed by the ones still in the
\* word buffer, are the graphemes read so far without the line endings, in
\* document order, each once and unaltered; at the end of the text all of
\* them have been drawn.
C6_DrawnIsText ==
    /\ DrawnIdx \o BufferedIdx = ContentIdx(cursor.graphemes)
    /\ \A i \in Drawn :
          surface[i].idx > 0 =>
              surface[i].grapheme = GraphemeFrom(text[surface[i].idx])
    /\ returned = "text_end" => DrawnIdx = ContentIdx(Len(text))

\* a pass reached the end of a text after a forced break inside a word and a
\* line end
C6_Witness ==
    /\ returned = "text_end" /\ config.soft_wrap_enable
    /\ Len(DrawnIdx) >= 3 /\ Len(DrawnIdx) < Len(text)
    /\ \E i, j \in Drawn :
          /\ j = i + 1 /\ surface[i].idx > 0 /\ surface[j].idx = surface[i].idx + 1
          /\ surface[j].visual_line = surface[i].visual_line + 1
          /\ ~is_whitespace(surface[i].grapheme)
          /\ ~is_whitespace(surface[j].grapheme)

\* C7: word_width is the sum of min_width over the buffered graphemes.
C7_WordWidthIsBufferedWidth == cursor.word_width = BufferedWidth

\* the raw text of the graphemes drawn on a row, in draw order, and the
\* columns they were drawn at
DrawnOn(row) ==
    SelectSeq(GraphemeCalls(surface), LAMBDA e : e.visual_line = row)

RawOn(row) == [i \in 1..Len(DrawnOn(row)) |-> DrawnOn(row)[i].grapheme.raw]

ColsOn(row) == [i \in 1..Len(DrawnOn(row)) |-> DrawnOn(row)[i].visual_x]

IsTenCharWord ==
    /\ text = TenCharWord /\ config \in TenCharWordConfigs
    /\ events = WholeStream(text)

\* C8 as stated: for the 10-character word with max_wrap 5 in a viewport of
\* width 20, the first call draws 5 characters and advances the line with the
\* indent disabled, and the second call draws the other 5.
C8_TenCharWordSplit ==
    IsTenCharWord =>
        /\ calls = 1 => /\ RawOn(0) = Repeat("a", 5)
                        /\ text_render.visual_line = 1
                        /\ text_render.indent_level = IndentNone
        /\ calls = 2 => /\ RawOn(0) = Repeat("a", 5)
                        /\ RawOn(1) = Repeat("a", 5)

\* C8 amended: for a text that is the 10-character word with max_wrap 5 in a
\* viewport of width 20, the first call draws all 10 characters on row 0 at
\* columns 0 to 9 without advancing the line and sets finished.
C8_TenCharWordFits ==
    (IsTenCharWord /\ calls >= 1) =>
        /\ RawOn(0) = TenCharWord
        /\ ColsOn(0) = [i \in 1..10 |-> i - 1]
        /\ Len(GraphemeCalls(surface)) = 10
        /\ text_render.visual_line = 0
        /\ text_render.indent_level = IndentKnown(0)
        /\ finished /\ cursor.word_buf = <<>>

C8_Witness ==
    /\ IsTenCharWord /\ calls = 1 /\ returned = "text_end" /\ max_wrap = 5
    /\ Len(surface) = 10

IsQuickBrownFox ==
    /\ text = QuickBrownFox /\ config = QuickBrownFoxConfig
    /\ events = WholeStream(text)

\* C9: for "The quick\nbrown fox" in a 10x2 viewport, the first call draws
\* "The quick" and one end-of-line space in columns 0 to 9 of row 0, advances
\* to visual line 1 and leaves finished false; the second call draws
\* "brown fox" on row 1 and leaves finished true.
C9_QuickBrownFox ==
    IsQuickBrownFox =>
        /\ calls >= 1 =>
              /\ RawOn(0) = SubSeq(QuickBrownFox, 1, 9) \o <<" ">>
              /\ ColsOn(0) = [i \in 1..10 |-> i - 1]
              /\ DrawnOn(0)[10].idx = 0
              /\ \A i \in 1..9 : DrawnOn(0)[i].idx = i
        /\ calls = 1 =>
              /\ text_render.visual_line = 1 /\ ~finished
              /\ Len(GraphemeCalls(surface)) = 10
        /\ calls >= 2 =>
              /\ RawOn(1) = SubSeq(QuickBrownFox, 11, 19)
              /\ \A i \in 1..9 : DrawnOn(1)[i].idx = 10 + i
              /\ Len(GraphemeCalls(surface)) = 19
              /\ finished

C9_Witness ==
    /\ IsQuickBrownFox /\ calls = 2 /\ finished
    /\ Len(DrawnOn(0)) = 10 /\ Len(DrawnOn(1)) = 9

\* C10: a tab drawn at running column c has width
\* tab_width - (c mod tab_width), between 1 and tab_width, and ends on a
\* multiple of tab_width; and every drawn grapheme, visible or not, moves the
\* running column by its resolved width: the next grapheme on the row is
\* drawn where it ended, and the running column is where the last one ended.
C10_TabWidthAndColumn ==
    LET q == GraphemeCalls(surface)
    IN /\ \A i \in 1..Len(q) :
             q[i].grapheme.kind = "Tab" =>
                /\ q[i].width = config.tab_width - (q[i].visual_x % config.tab_width)
                /\ q[i].width \in 1..config.tab_width
                /\ (q[i].visual_x + q[i].width) % config.tab_width = 0
                /\ (q[i].visual_x = 3 /\ config.tab_width = 4) => q[i].width = 1
                /\ (q[i].visual_x = 0 /\ config.tab_width = 4) => q[i].width = 4
       /\ \A i \in 1..Len(q) - 1 :
             q[i + 1].visual_line = q[i].visual_line =>
                q[i + 1].visual_x = q[i].visual_x + q[i].width
       /\ (q # <<>> /\ q[Len(q)].visual_line = text_render.visual_line) =>
             text_render.visual_x = q[Len(q)].visual_x + q[Len(q)].width

\* a tab drawn at column 3 under tab width 4, out of view, left the running
\* column at 4
C10_Witness ==
    LET q == GraphemeCalls(surface)
    IN /\ q # <<>> /\ config.tab_width = 4
       /\ q[Len(q)].grapheme.kind = "Tab" /\ q[Len(q)].visual_x = 3
       /\ q[Len(q)].width = 1 /\ q[Len(q)].write = "none"
       /\ q[Len(q)].visual_line = text_render.visual_line
       /\ text_render.visual_x = 4

\* a render_line call installs the indent level None: it leaves None on a
\* line that did not have it, or on a new line
InstallsNone ==
    /\ calls' # calls
    /\ text_render.indent_level'.tag = "None"
    /\ \/ text_render.indent_level.tag # "None"
       \/ text_render.visual_line' # text_render.visual_line

\* an indent level wrap_line retains on the continuation line
Retained(level) == level.tag = "Known" /\ level.col <= max_indent_retain

\* C11 as stated: the indent level is never None after construction, and a
\* call installs None only at a Wrap boundary whose buffered word is wider
\* than max_wrap.
C11_NoneOnlyAtForcedWrap ==
    /\ [](calls = 0 => text_render.indent_level.tag # "None")
    /\ [][InstallsNone =>
            /\ returned' = "wrap"
            /\ advanced'.word_boundry = "Wrap"
            /\ advanced'.cursor.word_width > max_wrap]_vars

\* C11 amended: the indent level is never None after construction; a call
\* installs None only through a soft wrap, forced or not, of a line whose
\* indent level is not Known(c) with c <= max_indent_retain, and every such
\* wrap installs it; a wrap of a line with a retained indent installs that
\* indent and a Newline installs Unkown.
C11_NoneOnlyAtUnretainedWrap ==
    /\ [](calls = 0 => text_render.indent_level.tag # "None")
    /\ [][InstallsNone =>
            /\ returned' = "wrap"
            /\ advanced'.word_boundry = "Wrap"
            /\ ~Retained(WrappedIndentLevel)]_vars
    /\ [][(calls' # calls /\ returned' = "wrap") =>
            text_render.indent_level' =
                IF Retained(WrappedIndentLevel)
                THEN IndentKnown(WrappedIndentLevel.col) ELSE IndentNone]_vars
    /\ [][(calls' # calls /\ returned' = "newline") =>
            text_render.indent_level' = IndentUnkown]_vars

\* an ordinary word wrap (the word is not wider than max_wrap) of a line that
\* held only whitespace installed None
C11_Witness ==
    /\ returned = "wrap" /\ text_render.indent_level = IndentNone
    /\ advanced.cursor.word_width > 0
    /\ advanced.cursor.word_width <= max_wrap
    /\ advanced.text_render.indent_level = IndentUnkown
    /\ cursor.word_buf = advanced.cursor.word_buf


\* the indent level a draw_grapheme call must leave, by the claim: Known at
\* the running column when the call found Unkown and the grapheme is not
\* whitespace, the level it found otherwise
IndentAfter(e) ==
    IF e.indent_level.tag = "Unkown" /\ ~is_whitespace(e.grapheme)
    THEN IndentKnown(e.visual_x) ELSE e.indent_level

\* C12: between two draws on the same visual line, and between the last draw
\* on the current line and now, the indent level changes only from Unkown to
\* Known(c), at a grapheme that is not whitespace drawn at running column c;
\* so on a line that starts Unkown it changes once, at the first such
\* grapheme, and a Known or None level stays.
C12_KnownAtFirstNonWhitespace ==
    LET q == GraphemeCalls(surface)
    IN /\ \A i \in 1..Len(q) - 1 :
             q[i + 1].visual_line = q[i].visual_line =>
                q[i + 1].indent_level = IndentAfter(q[i])
       /\ (q # <<>> /\ q[Len(q)].visual_line = text_render.visual_line) =>
             text_render.indent_level = IndentAfter(q[Len(q)])

\* on the current line a whitespace grapheme was drawn first and left the
\* level Unkown, a grapheme at a column c > 0 made it Known(c), and a later
\* one drawn on the line left it there
C12_Witness ==
    LET q == DrawnOn(text_render.visual_line)
    IN /\ Len(q) >= 3
       /\ is_whitespace(q[1].grapheme) /\ q[1].indent_level = IndentUnkown
       /\ q[2].indent_level = IndentUnkown /\ ~is_whitespace(q[2].grapheme)
       /\ q[2].visual_x > 0
       /\ q[3].indent_level = IndentKnown(q[2].visual_x)
       /\ ~is_whitespace(q[3].grapheme)
       /\ text_render.indent_level = IndentKnown(q[2].visual_x)


\* C13: right after construction finished is false, whatever the
\* highlight-event stream, and a render_line call sets it only after the
\* final flush or when the visual line counter has reached the viewport
\* height.
C13_ActiveAfterConstruction ==
    /\ calls = 0 => ~finished
    /\ finished =>
          \/ returned = "text_end"
          \/ text_render.visual_line >= config.height


\* the last call returned through a soft wrap of a word not wider than
\* max_wrap
WordWrapped ==
    /\ returned = "wrap" /\ advanced.word_boundry = "Wrap"
    /\ advanced.cursor.word_width <= max_wrap

\* C14 as stated: at a soft wrap of a word not wider than max_wrap the call
\* draws the pending word on the line it wraps, leaves the word buffer empty
\* and then advances the line.
C14_WordWrapFlushes ==
    WordWrapped =>
        /\ cursor.word_buf = <<>>
        /\ \A i \in 1..Len(advanced.cursor.word_buf) :
              \E j \in Drawn :
                  /\ surface[j].idx = advanced.cursor.word_buf[i].idx
                  /\ surface[j].visual_line = advanced.text_render.visual_line
        /\ text_render.visual_line = advanced.text_render.visual_line + 1

\* C14 amended: at a soft wrap of a word not wider than max_wrap the call
\* draws no grapheme after the boundary, leaves the whole word in the word
\* buffer with its width, advances to the next line and returns.
C14_WordWrapCarriesWord ==
    WordWrapped =>
        /\ cursor = advanced.cursor
        /\ cursor.word_buf # <<>>
        /\ GraphemeCalls(surface) = GraphemeCalls(advanced.text_render.surface)
        /\ text_render.visual_line = advanced.text_render.visual_line + 1

\* a word that fits max_wrap was carried whole to the continuation of a line
\* that already holds a word
C14_Witness ==
    /\ WordWrapped
    /\ advanced.text_render.indent_level.tag = "Known"
    /\ \E j \in Drawn :
          /\ surface[j].visual_line = advanced.text_render.visual_line
          /\ ~is_whitespace(surface[j].grapheme)
    /\ ~is_whitespace(cursor.word_buf[1].grapheme)
    /\ text_render.visual_x = text_render.indent_level.col + config.wrap_indent


\* the last call returned through a soft wrap of a word wider than max_wrap
ForcedWrap ==
    /\ returned = "wrap" /\ advanced.word_boundry = "Wrap"
    /\ advanced.cursor.word_width > max_wrap

\* the draw_grapheme calls made since cursor.advance last returned
DrawnSinceAdvance ==
    SubSeq(GraphemeCalls(surface),
           Len(GraphemeCalls(advanced.text_render.surface)) + 1,
           Len(GraphemeCalls(surface)))

\* space_left() at a running column
SpaceLeftAt(visual_x) == SatSub(config.col_offset + config.width, visual_x)

\* C15: at a soft wrap of a word wider than max_wrap the call draws, in
\* order and on the line it wraps, the longest prefix of the word buffer
\* whose graphemes each have min_width <= space_left() when drawn; the first
\* grapheme that does not fit is not drawn, and the graphemes from it on
\* stay in the buffer in their order.
C15_InWordBreakDrawsFittingPrefix ==
    ForcedWrap =>
        LET buf == advanced.cursor.word_buf
            new == DrawnSinceAdvance
            k == Len(new)
            end == IF k = 0 THEN advanced.text_render.visual_x
                   ELSE new[k].visual_x + new[k].width
        IN /\ k <= Len(buf)
           /\ \A i \in 1..k :
                 /\ new[i].idx = buf[i].idx
                 /\ new[i].grapheme = buf[i].grapheme
                 /\ new[i].visual_line = advanced.text_render.visual_line
                 /\ min_width(new[i].grapheme) <= SpaceLeftAt(new[i].visual_x)
           /\ k >= 1 => new[1].visual_x = advanced.text_render.visual_x
           /\ cursor.word_buf = SubSeq(buf, k + 1, Len(buf))
           /\ k < Len(buf) => min_width(buf[k + 1].grapheme) > SpaceLeftAt(end)
           /\ text_render.visual_line = advanced.text_render.visual_line + 1

\* an in-word break drew a prefix and stopped, with a column still free, at
\* a grapheme too wide for it
C15_Witness ==
    /\ ForcedWrap
    /\ Len(DrawnSinceAdvance) >= 2
    /\ cursor.word_buf # <<>>
    /\ Len(cursor.word_buf) < Len(advanced.cursor.word_buf)
    /\ LET new == DrawnSinceAdvance
       IN SpaceLeftAt(new[Len(new)].visual_x + new[Len(new)].width) = 1


\* the draw_grapheme calls a render_line call makes, and every surface call
\* it makes after the last of them
DrawnByCall ==
    SubSeq(GraphemeCalls(text_render.surface'),
           Len(GraphemeCalls(text_render.surface)) + 1,
           Len(GraphemeCalls(text_render.surface')))

CallsAfterLastDraw ==
    LET surf == text_render.surface'
        draws == {i \in DOMAIN surf : surf[i].call = "draw_grapheme"}
        last == IF draws = {} THEN 0
                ELSE CHOOSE i \in draws : \A j \in draws : j <= i
    IN SubSeq(surf, IF last > Len(text_render.surface)
                    THEN last + 1 ELSE Len(text_render.surface) + 1,
              Len(surf))

\* the text positions a call draws when it flushes every word up to position
\* upto: the buffered ones, then the ones it reads
FlushedIdx(upto) ==
    BufferedIdx \o [i \in 1..(upto - cursor.graphemes) |-> cursor.graphemes + i]

\* the number of guides draw_indent_guides draws for a resolved indent
GuideCount(resolved) ==
    SatSub(Min(resolved, config.col_offset + config.width
                           + (config.tab_width - 1)) \div config.tab_width,
           starting_indent)

\* the guides a call draws when it finishes the line it drew on: none when
\* guides are off or the line's indent level is None, else those of the
\* line's Known indent or of the indent carried from the line before
GuidesOfFinishedLine(level, carried) ==
    IF ~config.indent_guides_render \/ level.tag = "None" THEN 0
    ELSE GuideCount(IF level.tag = "Known" THEN level.col ELSE carried)

\* C16: a call that returns at a Newline boundary has read a line ending
\* last, moved the cursor to column 0 of the next row and buffered nothing
\* for it; it has drawn the pending word, then one synthetic space in the
\* style of the current scope, then the indent guides of the line, all on the
\* line it was on; it has advanced one line, to indent level Unkown and
\* running column 0; and finished is true exactly when the visual line
\* counter has reached the viewport height.
C16_NewlineBoundary ==
    [][(calls' # calls /\ returned' = "newline") =>
        LET new == DrawnByCall
            n == Len(new)
            guides == CallsAfterLastDraw
        IN /\ advanced'.word_boundry = "Newline"
           /\ IsLineEnding(text[cursor'.graphemes])
           /\ cursor'.pos = [row |-> cursor.pos.row + 1, col |-> 0]
           /\ cursor'.word_buf = <<>> /\ cursor'.word_width = 0
           /\ n >= 1
           /\ [i \in 1..(n - 1) |-> new[i].idx]
                 = FlushedIdx(cursor'.graphemes - 1)
           /\ new[n].idx = 0
           /\ new[n].grapheme = GraphemeSpace
           /\ new[n].style = patch(cursor'.highlight_scope.style,
                                   "ui.virtual.whitespace")
           /\ \A i \in 1..n : new[i].visual_line = text_render.visual_line
           /\ \A i \in 1..Len(guides) :
                 /\ guides[i].call = "draw_indent_guides"
                 /\ guides[i].visual_line = text_render.visual_line
           /\ Len(guides) = GuidesOfFinishedLine(IndentAfter(new[n]),
                                                 text_render.prev_indent_level)
           /\ text_render.visual_line' = text_render.visual_line + 1
           /\ text_render.indent_level' = IndentUnkown
           /\ text_render.visual_x' = 0
           /\ finished' = (text_render.visual_line' >= config.height)]_vars

\* a call flushed a word at a line end under a highlight scope, drew the
\* end-of-line space and a guide, and went on to a second row that is still
\* inside the viewport
C16_Witness ==
    /\ returned = "newline" /\ ~finished
    /\ cursor.pos = [row |-> 1, col |-> 0]
    /\ text_render.visual_line = 1
    /\ Len(DrawnOn(0)) >= 3
    /\ Len(cursor.highlight_scope.style) >= 2
    /\ \E i \in DOMAIN surface :
          surface[i].call = "draw_indent_guides" /\ surface[i].visual_line = 0


\* C17: the call that finds the highlight events exhausted draws the pending
\* word; then one synthetic space in the style of the last scope if and only
\* if that scope ends past the character count of the text; then the indent
\* guides of the line; it sets finished and does not advance the visual line.
C17_TextEnd ==
    [][(calls' # calls /\ returned' = "text_end") =>
        LET new == DrawnByCall
            n == Len(new)
            guides == CallsAfterLastDraw
            words == FlushedIdx(cursor'.graphemes)
            trailing == cursor'.highlight_scope.end > TextLenChars
            level == IF n = 0 THEN text_render.indent_level
                     ELSE IndentAfter(new[n])
        IN /\ highlights' = <<>> /\ finished'
           /\ cursor'.word_buf = <<>> /\ cursor'.word_width = 0
           /\ n = Len(words) + (IF trailing THEN 1 ELSE 0)
           /\ \A i \in 1..Len(words) : new[i].idx = words[i]
           /\ trailing =>
                 /\ new[n].idx = 0
                 /\ new[n].grapheme = GraphemeSpace
                 /\ new[n].style = patch(cursor'.highlight_scope.style,
                                         "ui.virtual.whitespace")
           /\ \A i \in 1..n : new[i].visual_line = text_render.visual_line
           /\ \A i \in 1..Len(guides) :
                 /\ guides[i].call = "draw_indent_guides"
                 /\ guides[i].visual_line = text_render.visual_line
           /\ Len(guides) =
                 GuidesOfFinishedLine(level, text_render.prev_indent_level)
           /\ text_render.visual_line' = text_render.visual_line
           /\ text_render.indent_level' = level]_vars

\* the text ended on a second line under a scope that ends past the text:
\* the last word was drawn, then the trailing space
C17_Witness ==
    LET q == GraphemeCalls(surface)
    IN /\ returned = "text_end" /\ finished
       /\ cursor.highlight_scope.end = TextLenChars + 1
       /\ Len(q) >= 2
       /\ q[Len(q)].idx = 0 /\ q[Len(q) - 1].idx = Len(text)
       /\ q[Len(q)].visual_line = text_render.visual_line
       /\ text_render.visual_line >= 1


\* the highlight stack after the first n events of the stream
RECURSIVE StackAfter(_)
StackAfter(n) ==
    IF n = 0 THEN <<>>
    ELSE LET stack == StackAfter(n - 1)
         IN CASE events[n].type = "HighlightStart" ->
                   Append(stack, events[n].span)
              [] events[n].type = "HighlightEnd" ->
                   IF stack = <<>> THEN stack
                   ELSE SubSeq(stack, 1, Len(stack) - 1)
              [] OTHER -> stack

\* the base text style patched by the scopes on the stack before event j,
\* the first pushed first
StyleAt(j) == <<"ui.text">> \o StackAfter(j - 1)

\* the non-empty Source ranges among the first n events
Ranges(n) ==
    {j \in 1..n : events[j].type = "Source" /\ events[j].start # events[j].end}

\* the Source range that holds the text position k
RangeOf(k) ==
    LET at == CharLen(SubSeq(text, 1, k - 1))
    IN CHOOSE j \in Ranges(Len(events)) :
          events[j].start <= at /\ at < events[j].end

\* C18: the highlight stack holds the pushes and pops of the events pulled
\* so far; the cursor's scope is the end of the last non-empty Source range
\* pulled with the base text style patched by the stack before it in push
\* order, whatever empty ranges follow it; and every grapheme read from the
\* text, buffered or drawn, has the style of the range that holds it (under
\* the whitespace style when drawn whitespace).
C18_ScopeStyles ==
    LET pulled == Len(events) - Len(highlights)
        ranges == Ranges(pulled)
        last == CHOOSE j \in ranges : \A i \in ranges : i <= j
    IN /\ spans = StackAfter(pulled)
       /\ cursor.highlight_scope =
             IF ranges = {} THEN [end |-> 0, style |-> StyleDefault]
             ELSE [end |-> events[last].end, style |-> StyleAt(last)]
       /\ \A i \in 1..Len(cursor.word_buf) :
             cursor.word_buf[i].style = StyleAt(RangeOf(cursor.word_buf[i].idx))
       /\ \A i \in Drawn :
             surface[i].idx > 0 =>
                surface[i].style =
                    IF is_whitespace(surface[i].grapheme)
                    THEN StyleAt(RangeOf(surface[i].idx))
                            \o <<"ui.virtual.whitespace">>
                    ELSE StyleAt(RangeOf(surface[i].idx))

\* graphemes were drawn under scope 1, under scope 2 inside it and, after
\* scope 2 was closed and an empty range skipped, under scope 3 inside
\* scope 1
C18_Witness ==
    /\ Len(text) = 3 /\ events = NestedStream(text) /\ finished
    /\ \E i, j, k \in Drawn :
          /\ surface[i].idx = 1 /\ surface[i].style = <<"ui.text", 1>>
          /\ surface[j].idx = 2 /\ surface[j].style = <<"ui.text", 1, 2>>
          /\ surface[k].idx = 3 /\ surface[k].style = <<"ui.text", 1, 3>>
    /\ spans = <<>>


\* C19: a draw_grapheme call writes the grapheme exactly when its whole span
\* [visual_x, visual_x + width) lies in [col_offset, col_offset + width of
\* the viewport); when the span straddles the left edge of that range it
\* applies a style to the remainder, width - (col_offset - visual_x) cells
\* from the left edge of the viewport, and writes no content; otherwise it
\* writes nothing.
C19_WriteIffSpanInView ==
    \A i \in Drawn :
        LET e == surface[i]
            from == config.col_offset
            to == config.col_offset + config.width
            inside == from <= e.visual_x /\ e.visual_x + e.width <= to
            straddles == e.visual_x < from /\ from < e.visual_x + e.width
        IN /\ e.write = "string" <=> inside
           /\ e.write = "style" <=> straddles
           /\ e.write = "style" =>
                 /\ e.span = e.width - (from - e.visual_x)
                 /\ e.x = config.viewport_x
           /\ e.write = "string" =>
                 e.x = config.viewport_x + (e.visual_x - from)


\* the indent guides drawn so far
Guides == {i \in DOMAIN surface : surface[i].call = "draw_indent_guides"}

\* C20: every indent guide is at a tab stop i >= starting_indent, below the
\* end_indent of the widest resolved indent, in a column of the viewport,
\* col_offset <= i * tab_width < col_offset + width, so that its x is the
\* cell viewport_x + i * tab_width - col_offset and no lower than viewport_x,
\* and on a row below the viewport height.
C20_GuidesInViewport ==
    \A g \in Guides :
        LET i == surface[g].idx
            column == i * config.tab_width
        IN /\ surface[g].visual_x = column
           /\ starting_indent <= i
           /\ i < (config.col_offset + config.width + (config.tab_width - 1))
                     \div config.tab_width
           /\ config.col_offset <= column
           /\ column < config.col_offset + config.width
           /\ surface[g].x = config.viewport_x + column - config.col_offset
           /\ surface[g].x >= config.viewport_x
           /\ surface[g].visual_line < config.height


----------------------------------------------------------------------------
(* Indent guides and the carried indent *)

\* the indent level visual line r ended with: as advance_to_next_line found
\* it, or the current one for the line the pass is on
LevelOf(r) ==
    IF r < Len(text_render.lines) THEN text_render.lines[r + 1]
    ELSE text_render.indent_level

\* the Known indent of the most recent line before visual line r that had
\* one, 0 if none
CarriedInto(r) ==
    LET known == {q \in 1..Min(r, Len(text_render.lines)) :
                     text_render.lines[q].tag = "Known"}
    IN IF known = {} THEN 0
       ELSE text_render.lines[CHOOSE q \in known : \A p \in known : p <= q].col

GuidesOn(r) == {i \in Guides : surface[i].visual_line = r}

\* whether the guides of visual line r have been drawn: the line has been
\* advanced from, or the pass ended on it
LineFinished(r) ==
    \/ r < Len(text_render.lines)
    \/ returned \in {"text_end", "partial"}

\* the tab stops that get a guide on visual line r
GuideStopsOf(r) ==
    IF \/ ~config.indent_guides_render
       \/ ~LineFinished(r)
       \/ LevelOf(r).tag = "None"
    THEN {}
    ELSE LET indent == IF LevelOf(r).tag = "Known" THEN LevelOf(r).col
                       ELSE CarriedInto(r)
             k == GuideCount(indent)
         IN {starting_indent + j - 1 : j \in 1..k}

\* C21 (the line a pass ended on is looked at when the pass ends, not after
\* the calls that return at once): the guides of a line are those of its Known indent, or, when its
\* indent is still Unkown, those of the Known indent of the most recent
\* earlier line that had one (0 if none), and a line whose indent is None
\* has no guides; advance_to_next_line sets the carried indent to the
\* indent of the line it leaves when that is Known and leaves it unchanged
\* otherwise.
C21_GuideIndentCarried ==
    /\ [](/\ Len(text_render.lines) = text_render.visual_line
          /\ \A r \in 0..text_render.visual_line :
                \/ r = text_render.visual_line /\ returned = "finished"
                \/ /\ {surface[i].idx : i \in GuidesOn(r)} = GuideStopsOf(r)
                   /\ Cardinality(GuidesOn(r)) = Cardinality(GuideStopsOf(r))
                   /\ \A i \in GuidesOn(r) :
                          surface[i].indent_level = LevelOf(r))
    /\ [][text_render'.visual_line # text_render.visual_line =>
            text_render'.prev_indent_level =
                LET left == text_render'.lines[text_render.visual_line + 1]
                IN IF left.tag = "Known" THEN left.col
                   ELSE text_render.prev_indent_level]_vars
    /\ [][text_render'.visual_line = text_render.visual_line =>
            text_render'.prev_indent_level = text_render.prev_indent_level]_vars

\* C21 witness: a line whose indent stayed Unkown has the guides of a Known
\* indent carried over a line without one
C21_Witness ==
    \E r \in 2..text_render.visual_line :
        /\ LevelOf(r).tag = "Unkown"
        /\ LevelOf(r - 1).tag # "Known"
        /\ CarriedInto(r) > 0
        /\ text_render.prev_indent_level = CarriedInto(r)
        /\ GuidesOn(r) # {}


----------------------------------------------------------------------------
(* Alignment of the highlight scopes with the cursor *)

\* the character positions of the grapheme boundaries of the text
GraphemeBoundaries ==
    {config.char_offset + CharLen(SubSeq(text, 1, k)) : k \in 0..Len(text)}

\* the non-empty Source ranges of the event stream, in order
IsRange(e) == e.type = "Source" /\ e.start # e.end

SourceRanges == SelectSeq(events, IsRange)

\* the stream is well formed: its non-empty ranges start at the cursor's
\* initial position, each starts where the one before ends, and each ends on
\* a grapheme boundary or, the last one, past the end of the text
WellFormed ==
    LET ranges == SourceRanges
    IN /\ ranges # <<>> => ranges[1].start = config.char_offset
       /\ \A i \in 1..(Len(ranges) - 1) : ranges[i + 1].start = ranges[i].end
       /\ \A i \in 1..Len(ranges) :
             \/ ranges[i].end \in GraphemeBoundaries
             \/ /\ i = Len(ranges)
                /\ ranges[i].end > config.char_offset + CharLen(text)

\* the text position of a cursor that has read n graphemes
CharPosAfter(n) == config.char_offset + CharLen(SubSeq(text, 1, n))

\* what both assertions and the returns of advance come to on the state of a
\* pass: the scopes installed so far and the last return of advance
ScopesAligned ==
    /\ \A i \in 1..Len(cursor.scopes) :
          /\ cursor.scopes[i].char_pos = cursor.scopes[i].scope_char_start
          /\ cursor.scopes[i].char_pos = CharPosAfter(cursor.scopes[i].graphemes)
          /\ i > 1 => cursor.scopes[i].char_pos
                         = cursor.scopes[i - 1].scope_char_end
    /\ cursor.char_pos = CharPosAfter(cursor.graphemes)
    /\ cursor.char_pos <= cursor.highlight_scope.end
    /\ advanced.cursor.char_pos <= advanced.cursor.highlight_scope.end
    /\ advanced.word_boundry = "None" =>
          \/ advanced.cursor.char_pos = advanced.cursor.highlight_scope.end
          \/ advanced.cursor.graphemes = Len(text)

\* C22: under a well-formed event stream every set_highlight_scope call is
\* given the cursor's character position as its start, the position never
\* exceeds the end of the installed scope, and advance returns None only
\* with the position exactly at the scope end or with the text exhausted, so
\* that each scope is installed with no grapheme of it read.
C22_ScopesAligned == WellFormed => ScopesAligned

\* C22 witness: under a well-formed stream a second scope was installed in
\* the middle of the text and graphemes of both scopes were read, the last
\* return of advance being None at the end of the scope
C22_Witness ==
    /\ WellFormed
    /\ Len(cursor.scopes) >= 2
    /\ 0 < cursor.scopes[2].char_pos
    /\ cursor.scopes[2].char_pos < cursor.char_pos
    /\ \E k \in 1..Len(text) : len_chars(text[k]) = 2
    /\ advanced.word_boundry = "None"
    /\ advanced.cursor.char_pos = advanced.cursor.highlight_scope.end
    /\ advanced.cursor.graphemes = Len(text)


----------------------------------------------------------------------------
(* Termination *)

\* C23: the loop of advance returns within the passes the text left allows;
\* every call of render_line that leaves finished() false has read a
\* grapheme of the text; and calling render_line while finished() is false
\* makes finished() true, whatever the viewport width, the wrap indent and
\* the widths of the graphemes.
C23_EventuallyFinished ==
    /\ <>finished
    /\ [](advanced.word_boundry # "Continue")
    /\ [][~finished' => cursor'.graphemes > cursor.graphemes]_vars

\* C23 witness: a pass in a viewport narrower than 4 columns, with a wrap
\* indent as large as the viewport and a grapheme wider than it, has
\* finished after at least three calls that wrapped
C23_Witness ==
    /\ finished
    /\ config.soft_wrap_enable
    /\ config.width < 4
    /\ max_wrap = 0
    /\ config.wrap_indent >= config.width
    /\ \E k \in 1..Len(text) : grapheme_width(text[k]) > config.width
    /\ text_render.visual_line >= 3
    /\ returned = "text_end"
    /\ calls >= 3


----------------------------------------------------------------------------
(* The right edge under soft wrap *)

TabFree == \A k \in 1..Len(text) : text[k] # "\t"

RightEdge == config.col_offset + config.width

\* the non-whitespace graphemes drawn that end past the right edge
PastRightEdge ==
    {i \in Drawn : /\ ~is_whitespace(surface[i].grapheme)
                   /\ surface[i].visual_x + surface[i].width > RightEdge}

\* C24: with soft wrap enabled and a text without tabs, every non-whitespace
\* grapheme drawn ends at or before the right edge of the viewport.
C24_WithinRightEdge ==
    config.soft_wrap_enable /\ TabFree => PastRightEdge = {}

====
